---- MODULE Spec2Model ----
(***************************************************************************)
(* Model of the MyShop storefront (app.py): the persistent store (users,   *)
(* products, cart rows, orders, order items), the browser session, and the *)
(* request handlers of the cart, the checkout flow and the password-reset  *)
(* flow.  Every handler is one action: it runs from the first line of the  *)
(* view function to the response.  cart_checkout, which commits three      *)
(* times, is also modelled commit by commit, for requests that the         *)
(* threaded server of app.run handles at the same time.                    *)
(*                                                                         *)
(* Optional values (a missing form field, a missing session key, a query   *)
(* that found no row) are sequences of length 0 or 1.  Text that the code  *)
(* parses or compares (form values, reset codes) is a sequence of          *)
(* one-character strings.                                                  *)
(***************************************************************************)
EXTENDS Integers, Sequences, FiniteSets, TLC

\* ---------------------------------------------------------------- bounds

\* largest absolute Cart.quantity the model follows
MaxQty == 2
\* number of rows the order table can grow to, commit by commit
MaxOrders == 2
\* number of rows the cart table can grow to
MaxCartRows == 2
\* number of rows the order item table can grow to
MaxOrderItems == 2
\* last clock value (minutes) the model follows
MaxTime == 12

\* ------------------------------------------------------- optional values

None == << >>

Some(x) == << x >>

\* ------------------------------------------------------------------ text

Space == " "

DigitChars == << "0", "1", "2", "3", "4", "5", "6", "7", "8", "9" >>

IsDigit(c) == \E i \in 1..10 : DigitChars[i] = c

DigitVal(c) == (CHOOSE i \in 1..10 : DigitChars[i] = c) - 1

RECURSIVE LStrip(_)
LStrip(s) == IF s # << >> /\ Head(s) = Space THEN LStrip(Tail(s)) ELSE s

RECURSIVE RStrip(_)
RStrip(s) ==
    IF s # << >> /\ s[Len(s)] = Space THEN RStrip(SubSeq(s, 1, Len(s) - 1)) ELSE s

\* str.strip()
Strip(s) == RStrip(LStrip(s))

RECURSIVE DigitsValue(_)
DigitsValue(s) ==
    IF s = << >> THEN 0
    ELSE 10 * DigitsValue(SubSeq(s, 1, Len(s) - 1)) + DigitVal(s[Len(s)])

\* int(text): surrounding whitespace, an optional sign, then digits;
\* anything else raises ValueError (ok = FALSE)
ParseInt(text) ==
    LET t == Strip(text)
        signed == t # << >> /\ Head(t) \in {"-", "+"}
        body == IF signed THEN Tail(t) ELSE t
        good == body # << >> /\ \A i \in 1..Len(body) : IsDigit(body[i])
    IN  IF ~good THEN [ok |-> FALSE, val |-> 0]
        ELSE [ok |-> TRUE,
              val |-> IF signed /\ Head(t) = "-" THEN 0 - DigitsValue(body)
                      ELSE DigitsValue(body)]

RECURSIVE StrNat(_)
StrNat(n) ==
    IF n < 10 THEN << DigitChars[n + 1] >>
    ELSE StrNat(n \div 10) \o << DigitChars[(n % 10) + 1] >>

\* str(n)
Str(n) == IF n < 0 THEN << "-" >> \o StrNat(0 - n) ELSE StrNat(n)

\* -------------------------------------------------------------- password

\* generate_password_hash: the stored value is not the plaintext
generate_password_hash(password) == [pbkdf2 |-> password]

check_password_hash(hash, password) == hash = generate_password_hash(password)

\* ----------------------------------------------------------------- state

VARIABLES
    users,        \* User table: sequence of rows, id = index
    products,     \* Product table: sequence of rows, id = index
    carts,        \* Cart table: set of rows [id, user_id, product_id, quantity]
    orders,       \* Order table: sequence of rows, id = index
    order_items,  \* OrderItem table: sequence of rows, id = index
    session,      \* the browser's session (Flask session + flask-login identity)
    now,          \* datetime.utcnow(), in minutes
    verified,     \* history: a verify-code POST accepted the current challenge
    resp,         \* the response to the last request: [op, to]
    inflight,     \* the cart_checkout requests being handled, one per server thread
    confirm_total \* history: the total cart_confirm computed when it stored payment_method

vars == << users, products, carts, orders, order_items, session, now, verified, resp,
           inflight, confirm_total >>

store == << users, products, carts, orders, order_items >>

\* ---------------------------------------------------------------- inputs

Emails == {"a@x", "b@x"}

Passwords == {"pw1", "pw2"}

\* what a visitor may type into the login form's email field
LoginEmails == Emails \cup {" A@X "}

\* (request.form["email"] or "").strip().lower()
NormalizeEmail(e) == IF e = " A@X " THEN "a@x" ELSE e

\* the Product table after upload_product stored two forms
Catalog == << [name |-> "pen", price |-> 5], [name |-> "ink", price |-> 10] >>

\* values of the quantity field of the add-to-cart form
QuantityTexts == { << Space, "1" >>, << "-", "1" >>, << "x" >> }

QuantityFields == {None} \cup { Some(t) : t \in QuantityTexts }

PaymentFields == {None, Some("card"), Some("cod"), Some("paypal")}

\* product ids of add-to-cart requests
ProductIds == 1..Len(Catalog)

CartIds == 1..MaxCartRows

\* values of uuid.uuid4().hex[:10].upper()
UuidHex == { << "A", "0" >>, << "A", "1" >> }

\* ------------------------------------------------------------- responses

Redirect(op, to) == [op |-> op, to |-> to]

Render(op, template) == [op |-> op, to |-> template]

\* abort(404) as rendered by not_found
NotFound(op) == [op |-> op, to |-> "404"]

\* an unhandled exception as rendered by internal_error
InternalError(op) == [op |-> op, to |-> "500"]

\* ------------------------------------------------------------ the session

EmptySession ==
    [user_id |-> None, payment_method |-> None, cart |-> None,
     reset_email |-> None, reset_code |-> None, reset_expiry |-> None]

\* current_user.is_authenticated
is_authenticated == session.user_id # None

\* current_user.id
current_user_id == session.user_id[1]

\* @login_required on an anonymous request
Unauthorized(op) ==
    /\ ~is_authenticated
    /\ resp' = Redirect(op, "login")
    /\ UNCHANGED << store, session, now, verified >>

\* ------------------------------------------------------------ the tables

\* the rows User.query.filter_by(email=email) matches
UsersByEmail(email) == { i \in 1..Len(users) : users[i].email = email }

\* the next primary key of a table whose largest key is the largest of ids
NextId(ids) == IF ids = {} THEN 1 ELSE (CHOOSE m \in ids : \A i \in ids : i <= m) + 1

\* Cart.query.filter_by(user_id=uid).all(), in primary-key order
RECURSIVE RowsInOrder(_)
RowsInOrder(rows) ==
    IF rows = {} THEN << >>
    ELSE LET first == CHOOSE r \in rows : \A q \in rows : r.id <= q.id
         IN  << first >> \o RowsInOrder(rows \ {first})

\* item.product: the row the relationship loads, None when there is none
ProductOf(item) ==
    IF item.product_id \in 1..Len(products) THEN Some(products[item.product_id]) ELSE None

\* the attributes of the Cart model
CartColumns == {"id", "user_id", "product_id", "quantity", "added_at"}

\* Cart.query.filter_by(**criteria): raises InvalidRequestError (ok = FALSE)
\* when a keyword is not an attribute of Cart
CartFilterBy(criteria) ==
    IF ~(DOMAIN criteria \subseteq CartColumns) THEN [ok |-> FALSE, rows |-> << >>]
    ELSE [ok |-> TRUE,
          rows |-> RowsInOrder({ r \in carts : \A k \in DOMAIN criteria : r[k] = criteria[k] })]

\* Cart.query.filter_by(user_id=current_user.id).all()
CartOf(uid) == CartFilterBy([user_id |-> uid]).rows

\* a lookup that never finds the row
FindCartItemNever(uid, product_id) == << >>

\* Cart.query.filter_by(user_id=current_user.id, product_id=product_id).first(),
\* as the rows the query matches
FindCartItem(uid, product_id) ==
    CartFilterBy([user_id |-> uid, product_id |-> product_id]).rows

\* an entry guard that lets every cart through
NoCartItemsNever(cart_items) == FALSE

\* "if not cart_items" of cart_confirm and cart_checkout
NoCartItems(cart_items) == cart_items = << >>

\* sum((item.product.price or 0) * item.quantity for item in cart_items);
\* item.product.price raises AttributeError (ok = FALSE) when item.product is None
RECURSIVE CartTotal(_)
CartTotal(items) ==
    IF items = << >> THEN [ok |-> TRUE, val |-> 0]
    ELSE LET product == ProductOf(Head(items))
             rest == CartTotal(Tail(items))
         IN  IF product = None \/ ~rest.ok THEN [ok |-> FALSE, val |-> 0]
             ELSE [ok |-> TRUE, val |-> product[1].price * Head(items).quantity + rest.val]

\* the server threads that handle cart_checkout requests at the same time
Threads == {"t1", "t2"}

\* the thread a new request gets when both are free: the threads are alike
FirstThread == "t1"

\* a thread that handles no cart_checkout request
IdleThread == [pc |-> "idle"]

\* ------------------------------------------------------------------ init

Init ==
    /\ users = << [email |-> "a@x", password_hash |-> generate_password_hash("pw1")],
                  [email |-> "b@x", password_hash |-> generate_password_hash("pw1")] >>
    /\ products = Catalog
    /\ carts = {}
    /\ orders = << >>
    /\ order_items = << >>
    /\ session = EmptySession
    /\ now = 0
    /\ verified = FALSE
    /\ resp = Render("index", "index.html")
    /\ inflight = [t \in Threads |-> IdleThread]
    /\ confirm_total = None

\* ----------------------------------------------------------------- login

login(email_field, password) ==
    LET email == NormalizeEmail(email_field)
        found == UsersByEmail(email)
    IN  /\ IF found # {} /\ check_password_hash(users[CHOOSE i \in found : TRUE].password_hash, password)
           THEN /\ session' = [session EXCEPT !.user_id = Some(CHOOSE i \in found : TRUE)]
                /\ resp' = Redirect("login", "index")
           ELSE /\ session' = session
                /\ resp' = Redirect("login", "login")
        /\ UNCHANGED << store, now, verified >>

logout ==
    \/ Unauthorized("logout")
    \/ /\ is_authenticated
       /\ session' = [session EXCEPT !.user_id = None]
       /\ resp' = Redirect("logout", "index")
       /\ UNCHANGED << store, now, verified >>

\* -------------------------------------------------------------- cart_add

cart_add(product_id, quantity_field) ==
    \/ Unauthorized("cart_add")
    \/ /\ is_authenticated
       /\ LET parsed == IF quantity_field = None THEN [ok |-> TRUE, val |-> 1]
                        ELSE ParseInt(quantity_field[1])
              qty == parsed.val
              found == FindCartItem(current_user_id, product_id)
          IN  IF ~parsed.ok
              THEN /\ resp' = InternalError("cart_add")
                   /\ UNCHANGED carts
              ELSE /\ IF found # << >>
                      THEN LET item == Head(found)
                           IN  /\ item.quantity + qty \in (0 - MaxQty)..MaxQty
                               /\ carts' = (carts \ {item})
                                    \cup {[item EXCEPT !.quantity = item.quantity + qty]}
                      ELSE /\ NextId({ r.id : r \in carts }) \in CartIds
                           /\ carts' = carts \cup
                                {[id |-> NextId({ r.id : r \in carts }),
                                  user_id |-> current_user_id,
                                  product_id |-> product_id,
                                  quantity |-> qty]}
                   /\ resp' = Redirect("cart_add", "cart")
       /\ UNCHANGED << users, products, orders, order_items, session, now, verified >>

\* ----------------------------------------------------------- cart_remove

cart_remove(item_id) ==
    \/ Unauthorized("cart_remove")
    \/ /\ is_authenticated
       /\ LET query == CartFilterBy([item_id |-> item_id, user_id |-> current_user_id])
          IN  IF ~query.ok
              THEN /\ resp' = InternalError("cart_remove")
                   /\ UNCHANGED carts
              ELSE IF query.rows = << >>
              THEN /\ resp' = NotFound("cart_remove")
                   /\ UNCHANGED carts
              ELSE /\ carts' = carts \ {Head(query.rows)}
                   /\ resp' = Redirect("cart_remove", "cart")
       /\ UNCHANGED << users, products, orders, order_items, session, now, verified >>

\* ----------------------------------------------------------- cart_update

StartsWith(s, prefix) == Len(s) >= Len(prefix) /\ SubSeq(s, 1, Len(prefix)) = prefix

QtyPrefix == << "q", "t", "y", "_" >>

\* the dict built by the loop over request.form.items(), as a set of
\* [pid, q] entries with one entry per pid (a later key replaces an earlier)
RECURSIVE UpdatedCart(_, _)
UpdatedCart(cart, pairs) ==
    IF pairs = << >> THEN cart
    ELSE LET key == Head(pairs).key
             parsed == ParseInt(Head(pairs).val)
             pid == SubSeq(key, Len(QtyPrefix) + 1, Len(key))
         IN  IF StartsWith(key, QtyPrefix) /\ parsed.ok /\ parsed.val > 0
             THEN UpdatedCart({ e \in cart : e.pid # pid } \cup {[pid |-> pid, q |-> parsed.val]},
                              Tail(pairs))
             ELSE UpdatedCart(cart, Tail(pairs))

cart_update(form) ==
    /\ session' = [session EXCEPT !.cart = Some(UpdatedCart({}, form))]
    /\ resp' = Redirect("cart_update", "cart")
    /\ UNCHANGED << store, now, verified >>

\* ---------------------------------------------------------- cart_confirm

cart_confirm(method, payment_field) ==
    \/ Unauthorized("cart_confirm")
    \/ /\ is_authenticated
       /\ LET cart_items == CartOf(current_user_id)
              total == CartTotal(cart_items)
          IN  IF NoCartItems(cart_items)
              THEN /\ resp' = Redirect("cart_confirm", "cart")
                   /\ UNCHANGED session
              ELSE IF ~total.ok
              THEN /\ resp' = InternalError("cart_confirm")
                   /\ UNCHANGED session
              ELSE IF method = "POST"
              THEN IF payment_field \notin {Some("card"), Some("cod")}
                   THEN /\ resp' = Redirect("cart_confirm", "cart_confirm")
                        /\ UNCHANGED session
                   ELSE /\ session' = [session EXCEPT !.payment_method = payment_field]
                        /\ resp' = Redirect("cart_confirm", "cart_checkout")
              ELSE /\ resp' = Render("cart_confirm", "confirm_order.html")
                   /\ UNCHANGED session
       /\ UNCHANGED << store, now, verified >>

\* --------------------------------------------------------- cart_checkout

generate_order_number(hex) == << "ORD-" >> \o hex

\* a column without the unique constraint
OrderNumberNeverTaken(number) == FALSE

\* the unique=True constraint on Order.order_number: the INSERT of a row
\* with this number raises IntegrityError when a row already has it
OrderNumberTaken(number) == \E i \in 1..Len(orders) : orders[i].order_number = number

\* the loop body run for the first cart row only
OrderItemsForFirst(order_id, uid, items) ==
    IF items = << >> THEN << >>
    ELSE << [order_id |-> order_id,
             product_id |-> Head(items).product_id,
             user_id |-> uid,
             product_name |-> ProductOf(Head(items))[1].name,
             unit_price |-> ProductOf(Head(items))[1].price,
             quantity |-> Head(items).quantity] >>

\* the OrderItem rows the loop over cart_items adds for order order_id
RECURSIVE OrderItemsFor(_, _, _)
OrderItemsFor(order_id, uid, items) ==
    IF items = << >> THEN << >>
    ELSE LET item == Head(items)
             product == ProductOf(item)[1]
         IN  << [order_id |-> order_id,
                 product_id |-> item.product_id,
                 user_id |-> uid,
                 product_name |-> product.name,
                 unit_price |-> product.price,
                 quantity |-> item.quantity] >>
             \o OrderItemsFor(order_id, uid, Tail(items))

\* the status of a handler that never marks the order paid
FinalStatusUnpaid(payment_method) ==
    IF payment_method = "cod" THEN "Processing" ELSE "Awaiting Payment"

\* the status the handler leaves on the order it created
FinalStatus(payment_method) ==
    LET created == IF payment_method = "cod" THEN "Processing" ELSE "Awaiting Payment"
    IN  IF payment_method = "cod" THEN created
        ELSE IF payment_method = "card" THEN "Paid"
        ELSE created

\* a request that ends in an unhandled exception: internal_error renders the
\* 500 page and the session changes are saved with it; under app.run(debug=True)
\* the exception propagates and the session cookie is not rewritten
SessionAfterError(changed) == {changed, session}

\* session.get("payment_method") in place of the pop: the key stays
PaymentMethodKept == session

\* the session after session.pop("payment_method", None)
PaymentMethodPopped == [session EXCEPT !.payment_method = None]

cart_checkout(hex) ==
    \/ Unauthorized("cart_checkout")
    \/ /\ is_authenticated
       /\ LET cart_items == CartOf(current_user_id)
              payment_method == session.payment_method
              popped == PaymentMethodPopped
              total == CartTotal(cart_items)
              number == generate_order_number(hex)
              order_id == Len(orders) + 1
          IN  IF NoCartItems(cart_items)
              THEN /\ resp' = Redirect("cart_checkout", "cart")
                   /\ UNCHANGED << session, carts, orders, order_items >>
              ELSE IF payment_method = None
              THEN /\ resp' = Redirect("cart_checkout", "cart_confirm")
                   /\ UNCHANGED << session, carts, orders, order_items >>
              ELSE IF ~total.ok \/ OrderNumberTaken(number)
              THEN /\ resp' = InternalError("cart_checkout")
                   /\ session' \in SessionAfterError(popped)
                   /\ UNCHANGED << carts, orders, order_items >>
              ELSE /\ Len(order_items) + Len(cart_items) <= MaxOrderItems
                   /\ orders' = Append(orders,
                                       [order_number |-> number,
                                        user_id |-> current_user_id,
                                        total_amount |-> total.val,
                                        shipping |-> 0,
                                        status |-> FinalStatus(payment_method[1])])
                   /\ order_items' = order_items
                                       \o OrderItemsFor(order_id, current_user_id, cart_items)
                   /\ carts' = carts \ { cart_items[i] : i \in 1..Len(cart_items) }
                   /\ session' = popped
                   /\ resp' = IF payment_method[1] \in {"cod", "card"}
                              THEN Redirect("cart_checkout", "order_confirmation")
                              ELSE Redirect("cart_checkout", "cart")
       /\ UNCHANGED << users, products, now, verified >>

\* ------------------------------------- cart_checkout, commit by commit

\* a per-user lock held from the cart query to the response
CheckoutExcludedByLock(uid) ==
    \E t \in Threads : inflight[t].pc # "idle" /\ inflight[t].uid = uid

\* cart_checkout takes no lock: a request is never refused because another
\* request of the same user is being handled
CheckoutExcluded(uid) == FALSE

\* the total of a commit that reuses the total cart_confirm computed
CommitTotalFromConfirm(cart_items) ==
    IF confirm_total = None THEN CartTotal(cart_items)
    ELSE [ok |-> TRUE, val |-> confirm_total[1]]

\* total = sum(...) of cart_checkout, over the rows the request read
CommitTotal(cart_items) == CartTotal(cart_items)

\* the rows of cart_items as they are in the table now: after a commit every
\* loaded row is expired and is read again at its next use; a row that is no
\* longer in the table raises ObjectDeletedError (ok = FALSE)
Refreshed(cart_items) ==
    LET ids == { cart_items[i].id : i \in 1..Len(cart_items) }
        rows == { r \in carts : r.id \in ids }
    IN  [ok |-> { r.id : r \in rows } = ids, rows |-> RowsInOrder(rows)]

\* the Order rows the requests in flight have still to insert
PendingOrders == Cardinality({ t \in Threads : inflight[t].pc = "order" })

\* the OrderItem rows the requests in flight have still to insert
RECURSIVE PendingItems(_)
PendingItems(threads) ==
    IF threads = {} THEN 0
    ELSE LET t == CHOOSE u \in threads : TRUE
         IN  (IF inflight[t].pc \in {"order", "items", "flush"}
              THEN Len(inflight[t].cart_items) ELSE 0)
             + PendingItems(threads \ {t})

\* the request ends: the thread is free again
Finish(t) == inflight' = [inflight EXCEPT ![t] = IdleThread]

\* from the entry of the view to the Order object: the cart query, the pop of
\* payment_method from the session the request came with, the total
checkout_begin(t) ==
    /\ inflight[t].pc = "idle"
    /\ t # FirstThread => inflight[FirstThread].pc # "idle"
    /\ \/ /\ Unauthorized("cart_checkout")
          /\ UNCHANGED inflight
       \/ /\ is_authenticated
          /\ ~CheckoutExcluded(current_user_id)
          /\ LET cart_items == CartOf(current_user_id)
                 payment_method == session.payment_method
                 popped == PaymentMethodPopped
                 total == CommitTotal(cart_items)
             IN  IF NoCartItems(cart_items)
                 THEN /\ resp' = Redirect("cart_checkout", "cart")
                      /\ UNCHANGED << session, inflight >>
                 ELSE IF payment_method = None
                 THEN /\ resp' = Redirect("cart_checkout", "cart_confirm")
                      /\ UNCHANGED << session, inflight >>
                 ELSE IF ~total.ok
                 THEN /\ resp' = InternalError("cart_checkout")
                      /\ session' \in SessionAfterError(popped)
                      /\ UNCHANGED inflight
                 ELSE /\ Len(orders) + PendingOrders < MaxOrders
                      /\ Len(order_items) + PendingItems(Threads) + Len(cart_items)
                            <= MaxOrderItems
                      /\ inflight' = [inflight EXCEPT ![t] =
                                        [pc |-> "order",
                                         uid |-> current_user_id,
                                         session |-> popped,
                                         cart_items |-> cart_items,
                                         payment_method |-> payment_method[1],
                                         total |-> total.val,
                                         order_id |-> 0,
                                         confirmed |-> confirm_total]]
                      /\ UNCHANGED << session, resp >>
          /\ UNCHANGED << store, now, verified >>
    /\ UNCHANGED confirm_total

\* status="Processing" if payment_method == "cod" else "Awaiting Payment"
CreatedStatus(payment_method) ==
    IF payment_method = "cod" THEN "Processing" ELSE "Awaiting Payment"

\* db.session.add(order); db.session.commit(): the Order row is in the table
checkout_commit_order(t, hex) ==
    /\ inflight[t].pc = "order"
    /\ LET req == inflight[t]
           number == generate_order_number(hex)
       IN  IF OrderNumberTaken(number)
           THEN /\ resp' = InternalError("cart_checkout")
                /\ session' \in SessionAfterError(req.session)
                /\ Finish(t)
                /\ UNCHANGED orders
           ELSE /\ orders' = Append(orders,
                                    [order_number |-> number,
                                     user_id |-> req.uid,
                                     total_amount |-> req.total,
                                     shipping |-> 0,
                                     status |-> CreatedStatus(req.payment_method)])
                /\ inflight' = [inflight EXCEPT ![t] =
                                   [req EXCEPT !.pc = "items",
                                               !.order_id = Len(orders) + 1]]
                /\ UNCHANGED << session, resp >>
    /\ UNCHANGED << users, products, carts, order_items, now, verified, confirm_total >>

\* the loop over cart_items: item.product reads every row again
checkout_load_items(t) ==
    /\ inflight[t].pc = "items"
    /\ LET req == inflight[t]
           fresh == Refreshed(req.cart_items)
       IN  IF ~fresh.ok
           THEN /\ resp' = InternalError("cart_checkout")
                /\ session' \in SessionAfterError(req.session)
                /\ Finish(t)
           ELSE /\ inflight' = [inflight EXCEPT ![t] =
                                   [req EXCEPT !.pc = "flush", !.cart_items = fresh.rows]]
                /\ UNCHANGED << session, resp >>
    /\ UNCHANGED << store, now, verified, confirm_total >>

\* the response of a finished checkout, with the session it saves
CheckoutResponse(req) ==
    /\ session' = req.session
    /\ resp' = IF req.payment_method \in {"cod", "card"}
               THEN Redirect("cart_checkout", "order_confirmation")
               ELSE Redirect("cart_checkout", "cart")

\* the second db.session.commit(): the OrderItem rows are inserted and the
\* Cart rows deleted by primary key (a row already gone is a warning); a cod
\* order is answered here
checkout_commit_items(t) ==
    /\ inflight[t].pc = "flush"
    /\ LET req == inflight[t]
       IN  /\ order_items' = order_items
                               \o OrderItemsFor(req.order_id, req.uid, req.cart_items)
           /\ carts' = { r \in carts :
                           \A i \in 1..Len(req.cart_items) : r.id # req.cart_items[i].id }
           /\ IF req.payment_method = "card"
              THEN /\ inflight' = [inflight EXCEPT ![t] = [req EXCEPT !.pc = "paid"]]
                   /\ UNCHANGED << session, resp >>
              ELSE /\ CheckoutResponse(req)
                   /\ Finish(t)
    /\ UNCHANGED << users, products, orders, now, verified, confirm_total >>

\* order.status = "Paid"; db.session.commit(); the response
checkout_commit_paid(t) ==
    /\ inflight[t].pc = "paid"
    /\ LET req == inflight[t]
       IN  /\ orders' = [orders EXCEPT ![req.order_id].status =
                                          FinalStatus(req.payment_method)]
           /\ CheckoutResponse(req)
           /\ Finish(t)
    /\ UNCHANGED << users, products, carts, order_items, now, verified, confirm_total >>

\* cart_confirm, with the total it computed kept when it stores payment_method
cart_confirm_total(method, payment_field) ==
    /\ cart_confirm(method, payment_field)
    /\ confirm_total' = IF resp' = Redirect("cart_confirm", "cart_checkout")
                        THEN Some(CartTotal(CartOf(current_user_id)).val)
                        ELSE confirm_total
    /\ UNCHANGED inflight

\* forms posted to /cart/update
UpdateForms ==
    { << [key |-> QtyPrefix \o << "1" >>, val |-> << "2" >>] >>,
      << [key |-> QtyPrefix \o << "1" >>, val |-> << "0" >>] >>,
      << [key |-> << "c", "s", "r", "f" >>, val |-> << "1" >>] >> }

\* ------------------------------------------------------- forgot_password

\* the validity of a reset code, in minutes: timedelta(minutes=10)
ResetMinutes == 10

\* datetime.isoformat(), for a time given in minutes
isoformat(t) == [hh |-> t \div 60, mm |-> t % 60]

\* datetime.fromisoformat()
fromisoformat(text) == text.hh * 60 + text.mm

forgot_password(method, email, code_number) ==
    /\ IF method = "POST"
       THEN /\ IF UsersByEmail(email) # {}
               THEN /\ session' = [session EXCEPT
                                      !.reset_email = Some(email),
                                      !.reset_code = Some(Str(code_number)),
                                      !.reset_expiry = Some(isoformat(now + ResetMinutes))]
                    /\ verified' = FALSE
               ELSE UNCHANGED << session, verified >>
            /\ resp' = Redirect("forgot_password", "verify_code")
       ELSE /\ resp' = Render("forgot_password", "forgot_password.html")
            /\ UNCHANGED << session, verified >>
    /\ UNCHANGED << store, now >>

\* ----------------------------------------------------------- verify_code

\* an expiry test that also rejects the last valid minute
CodeExpiredEarly(expiry_str) == now >= fromisoformat(expiry_str)

\* datetime.utcnow() > expiry
CodeExpired(expiry_str) == now > fromisoformat(expiry_str)

\* code != saved_code, for the code field as submitted
CodeMismatch(code_field, saved_code) ==
    LET code == Strip(IF code_field = None THEN << >> ELSE code_field[1])
    IN  code # saved_code

verify_code(method, code_field) ==
    /\ IF method = "POST"
       THEN IF session.reset_code = None \/ session.reset_code[1] = << >>
               \/ session.reset_expiry = None
            THEN /\ resp' = Redirect("verify_code", "forgot_password")
                 /\ UNCHANGED verified
            ELSE IF CodeExpired(session.reset_expiry[1])
            THEN /\ resp' = Redirect("verify_code", "forgot_password")
                 /\ UNCHANGED verified
            ELSE IF CodeMismatch(code_field, session.reset_code[1])
            THEN /\ resp' = Redirect("verify_code", "verify_code")
                 /\ UNCHANGED verified
            ELSE /\ resp' = Redirect("verify_code", "reset_password")
                 /\ verified' = TRUE
       ELSE /\ resp' = Render("verify_code", "verify_code.html")
            /\ UNCHANGED verified
    /\ UNCHANGED << store, session, now >>

\* -------------------------------------------------------- reset_password

reset_password(method, new, confirm) ==
    /\ IF session.reset_email = None
       THEN /\ resp' = Redirect("reset_password", "forgot_password")
            /\ UNCHANGED << users, session, verified >>
       ELSE LET found == UsersByEmail(session.reset_email[1])
            IN  IF found = {}
                THEN /\ resp' = NotFound("reset_password")
                     /\ UNCHANGED << users, session, verified >>
                ELSE IF method = "POST"
                THEN IF new = "" \/ new # confirm
                     THEN /\ resp' = Redirect("reset_password", "reset_password")
                          /\ UNCHANGED << users, session, verified >>
                     ELSE /\ users' = [users EXCEPT
                                         ![CHOOSE i \in found : \A j \in found : i <= j].password_hash =
                                             generate_password_hash(new)]
                          /\ session' = [session EXCEPT !.reset_email = None,
                                                         !.reset_code = None,
                                                         !.reset_expiry = None]
                          /\ verified' = FALSE
                          /\ resp' = Redirect("reset_password", "login")
                ELSE /\ resp' = Render("reset_password", "reset_password.html")
                     /\ UNCHANGED << users, session, verified >>
    /\ UNCHANGED << products, carts, orders, order_items, now >>

\* time passes between two requests
Tick ==
    /\ now < MaxTime
    /\ now' = now + 1
    /\ UNCHANGED << store, session, verified, resp >>

\* the ends of random.randint(100000, 999999)
CodeNumbers == {100000, 999999}

\* what a visitor may type into the code field
CodeFields ==
    {None, Some(<< >>)}
        \cup { Some(Str(n)) : n \in CodeNumbers }
        \cup { Some(<< Space >> \o Str(n) \o << Space >>) : n \in CodeNumbers }

ResetEmails == Emails \cup {"nobody@x"}

NewPasswords == Passwords \cup {""}

Methods == {"GET", "POST"}

\* ------------------------------------------------------- specifications

\* what only the commit-by-commit checkout reads and writes
commit_state == << inflight, confirm_total >>

\* the Cart table: identity and the handlers that read and write Cart rows
NextCart ==
    \/ \E e \in LoginEmails, p \in Passwords :
          login(e, p) /\ UNCHANGED commit_state
    \/ logout /\ UNCHANGED commit_state
    \/ \E p \in ProductIds, q \in QuantityFields :
          cart_add(p, q) /\ UNCHANGED commit_state
    \/ \E i \in CartIds :
          cart_remove(i) /\ UNCHANGED commit_state

SpecCart == Init /\ [][NextCart]_vars

\* the session cart: cart_update writes session["cart"] and no table
NextSessionCart ==
    \/ \E e \in LoginEmails, p \in Passwords :
          login(e, p) /\ UNCHANGED commit_state
    \/ logout /\ UNCHANGED commit_state
    \/ \E f \in UpdateForms :
          cart_update(f) /\ UNCHANGED commit_state

SpecSessionCart == Init /\ [][NextSessionCart]_vars

\* the checkout flow, entered with an empty cart table or with one row in it
InitCheckout ==
    /\ users = << [email |-> "a@x", password_hash |-> generate_password_hash("pw1")],
                  [email |-> "b@x", password_hash |-> generate_password_hash("pw1")] >>
    /\ products = Catalog
    /\ carts \in {{}} \cup { {[id |-> 1, user_id |-> u, product_id |-> 1, quantity |-> 1]} :
                               u \in 1..Len(users) }
    /\ orders = << >>
    /\ order_items = << >>
    /\ session = EmptySession
    /\ now = 0
    /\ verified = FALSE
    /\ resp = Render("index", "index.html")
    /\ inflight = [t \in Threads |-> IdleThread]
    /\ confirm_total = None

\* product ids of add-to-cart requests during checkout: the last product of
\* the catalogue and an id without a Product row
CheckoutProductIds == Len(Catalog)..(Len(Catalog) + 1)

CheckoutQuantityFields == {Some(<< "2" >>)}

NextCheckout ==
    \/ \E e \in Emails :
          login(e, "pw1") /\ UNCHANGED commit_state
    \/ logout /\ UNCHANGED commit_state
    \/ \E p \in CheckoutProductIds, q \in CheckoutQuantityFields :
          cart_add(p, q) /\ UNCHANGED commit_state
    \/ \E m \in Methods, f \in PaymentFields :
          cart_confirm(m, f) /\ UNCHANGED commit_state
    \/ \E h \in UuidHex :
          cart_checkout(h) /\ UNCHANGED commit_state

SpecCheckout == InitCheckout /\ [][NextCheckout]_vars

\* the password-reset flow
NextReset ==
    \/ \E m \in Methods, e \in ResetEmails, n \in CodeNumbers :
          forgot_password(m, e, n) /\ UNCHANGED commit_state
    \/ \E m \in Methods, c \in CodeFields :
          verify_code(m, c) /\ UNCHANGED commit_state
    \/ \E m \in Methods, n \in NewPasswords, c \in NewPasswords :
          reset_password(m, n, c) /\ UNCHANGED commit_state
    \/ Tick /\ UNCHANGED commit_state

SpecReset == Init /\ [][NextReset]_vars

\* the checkout of one browser whose requests the server handles at the
\* same time
CommitQuantityFields == {None}

\* the product the browser adds: every row of its cart is of the first product
CommitProductIds == {1}

\* the payment method whose checkout commits three times
CommitPaymentFields == {Some("card")}

NextCommit ==
    \/ login("a@x", "pw1") /\ UNCHANGED commit_state
    \/ \E p \in CommitProductIds, q \in CommitQuantityFields :
          cart_add(p, q) /\ UNCHANGED commit_state
    \/ \E f \in CommitPaymentFields : cart_confirm_total("POST", f)
    \/ \E t \in Threads : checkout_begin(t)
    \/ \E t \in Threads, h \in UuidHex : checkout_commit_order(t, h)
    \/ \E t \in Threads : checkout_load_items(t)
    \/ \E t \in Threads : checkout_commit_items(t)
    \/ \E t \in Threads : checkout_commit_paid(t)

SpecCommit == Init /\ [][NextCommit]_vars

\* every handler
Next == NextCart \/ NextSessionCart \/ NextCheckout \/ NextReset \/ NextCommit

Spec == Init /\ [][Next]_vars

\* ---------------------------------------------------------------- claims

\* the Cart rows of one user, before and after a step
RowsOfUser(table, uid) == { r \in table : r.user_id = uid }

\* the text of an optional form field
FieldText(field) == IF field = None THEN << >> ELSE field[1]

\* C1: a reset-password POST changes a stored password only if an earlier
\* verify-code POST of the session accepted the code of the current challenge.
C1_ResetOnlyAfterVerified == [][users' # users => verified]_vars

\* the session holds a code and an expiry, and the expiry has not passed
ChallengeLive ==
    /\ session.reset_code # None
    /\ session.reset_expiry # None
    /\ now <= fromisoformat(session.reset_expiry[1])

\* C2 as stated: verify-code accepts if and only if the submitted code equals
\* the stored code and now <= expiry.
C2_AcceptsIffExactCode ==
    [][\A c \in CodeFields :
          verify_code("POST", c) =>
              (resp'.to = "reset_password"
                  <=> (ChallengeLive /\ FieldText(c) = session.reset_code[1]))]_vars

\* C2 as amended: verify-code accepts if and only if the submitted code, with
\* leading and trailing whitespace removed, equals the stored code and
\* now <= expiry, the expiry being the issue time plus 10 minutes; a missing
\* code or expiry and an expired challenge redirect to forgot-password, a
\* mismatch redirects to verify-code.
C2_AcceptsIffStrippedCode ==
    [][/\ \A c \in CodeFields :
            verify_code("POST", c) =>
              /\ resp'.to = "reset_password"
                    <=> (ChallengeLive /\ Strip(FieldText(c)) = session.reset_code[1])
              /\ ~ChallengeLive => resp'.to = "forgot_password"
              /\ (ChallengeLive /\ Strip(FieldText(c)) # session.reset_code[1])
                    => resp'.to = "verify_code"
       /\ (session'.reset_expiry # session.reset_expiry /\ session'.reset_expiry # None)
            => fromisoformat(session'.reset_expiry[1]) = now + 10]_vars

\* a code accepted in the last minute of its validity
C2_Witness ==
    /\ resp = Redirect("verify_code", "reset_password")
    /\ session.reset_expiry # None
    /\ now = fromisoformat(session.reset_expiry[1])
    /\ now > 0

\* no two Cart rows of the same user and product
C3_UniqueRows ==
    \A r1 \in carts, r2 \in carts :
        (r1.user_id = r2.user_id /\ r1.product_id = r2.product_id) => r1 = r2

\* a completed add-to-cart of quantity q leaves exactly one row of the pair,
\* holding the quantity the pair had before (0 without a row) plus q
C3_AddMerges ==
    (is_authenticated /\ resp' = Redirect("cart_add", "cart")) =>
    \A p \in ProductIds, q \in QuantityFields :
        cart_add(p, q) =>
            LET uid == current_user_id
                qty == IF q = None THEN 1 ELSE ParseInt(q[1]).val
                before == { r \in carts : r.user_id = uid /\ r.product_id = p }
                after == { r \in carts' : r.user_id = uid /\ r.product_id = p }
                had == IF before = {} THEN 0 ELSE (CHOOSE r \in before : TRUE).quantity
            IN  /\ Cardinality(after) = 1
                /\ \A r \in after : r.quantity = had + qty
                /\ carts' \ after = carts \ before

\* C3: after any sequence of completed add-to-cart requests there is at most
\* one Cart row per (user, product), and two adds of q1 and q2 for one pair
\* leave exactly one row of quantity q1 + q2.
C3_OneRowPerUserAndProduct ==
    C3_UniqueRows /\ [][(carts' # carts => C3_UniqueRows') /\ C3_AddMerges]_vars

\* a row whose quantity only two merged adds produce
C3_Witness ==
    /\ resp = Redirect("cart_add", "cart")
    /\ \E r \in carts : r.quantity = 2

\* C4: every Cart row in every reachable state has quantity >= 1.
C4_QuantityAtLeastOne == \A r \in carts : r.quantity >= 1

\* C5: a confirm or commit request of a user without Cart rows creates no
\* Order and no OrderItem and redirects to the cart view.
C5_EmptyCartNoOrder ==
    [][(/\ is_authenticated
        /\ resp'.op \in {"cart_confirm", "cart_checkout"}
        /\ RowsOfUser(carts, current_user_id) = {})
          => (/\ orders' = orders
              /\ order_items' = order_items
              /\ resp'.to = "cart")]_vars

\* a commit on an empty cart with a payment method in the session
C5_Witness ==
    /\ is_authenticated
    /\ resp = Redirect("cart_checkout", "cart")
    /\ RowsOfUser(carts, current_user_id) = {}
    /\ session.payment_method # None

\* C6: after a successful commit the user's cart is empty and the new Order
\* has exactly one OrderItem per pre-commit Cart row, each with that row's
\* quantity and the product's name and price at commit time.
C6_CommitDrainsCart ==
    [][(resp'.op = "cart_checkout" /\ orders' # orders) =>
          LET uid == current_user_id
              rows == RowsInOrder(RowsOfUser(carts, uid))
              n == Len(order_items)
          IN  /\ RowsOfUser(carts', uid) = {}
              /\ carts' = carts \ RowsOfUser(carts, uid)
              /\ Len(orders') = Len(orders) + 1
              /\ Len(order_items') = n + Len(rows)
              /\ SubSeq(order_items', 1, n) = order_items
              /\ \A i \in 1..Len(rows) :
                    /\ order_items'[n + i].order_id = Len(orders')
                    /\ order_items'[n + i].user_id = uid
                    /\ order_items'[n + i].product_id = rows[i].product_id
                    /\ order_items'[n + i].quantity = rows[i].quantity
                    /\ order_items'[n + i].product_name = products[rows[i].product_id].name
                    /\ order_items'[n + i].unit_price = products[rows[i].product_id].price]_vars

\* a commit of a cart of two rows of different quantities
C6_Witness ==
    /\ resp = Redirect("cart_checkout", "order_confirmation")
    /\ \E i \in 1..Len(order_items), j \in 1..Len(order_items) :
          /\ order_items[i].order_id = Len(orders)
          /\ order_items[j].order_id = Len(orders)
          /\ order_items[i].quantity # order_items[j].quantity
    /\ RowsOfUser(carts, current_user_id) = {}

\* C7: the Order a completed commit created has status "Processing" when the
\* selected payment method was cod and "Paid" when it was card, and no other.
C7_StatusByPaymentMethod ==
    [][(resp'.op = "cart_checkout" /\ orders' # orders) =>
          LET method == session.payment_method
              status == orders'[Len(orders')].status
          IN  /\ method \in {Some("cod"), Some("card")}
              /\ method = Some("cod") => status = "Processing"
              /\ method = Some("card") => status = "Paid"
              /\ resp'.to = "order_confirmation"]_vars

\* a card order right after its commit
C7_Witness ==
    /\ resp = Redirect("cart_checkout", "order_confirmation")
    /\ orders[Len(orders)].status = "Paid"

\* C8: a commit that finds no payment_method creates no Order, leaves the
\* cart unchanged and redirects to Confirm; every Order creation consumes a
\* payment method that only an accepted Confirm submission stores.
C8_PaymentMethodSingleUse ==
    [][/\ (/\ is_authenticated
            /\ resp'.op = "cart_checkout"
            /\ RowsOfUser(carts, current_user_id) # {}
            /\ session.payment_method = None)
              => (/\ orders' = orders
                  /\ order_items' = order_items
                  /\ carts' = carts
                  /\ resp'.to = "cart_confirm")
       /\ orders' # orders
              => (session.payment_method # None /\ session'.payment_method = None)
       /\ (session'.payment_method # session.payment_method
                /\ session'.payment_method # None)
              => resp' = Redirect("cart_confirm", "cart_checkout")]_vars

\* a repeated commit, after an order of the same user, sent back to Confirm
C8_Witness ==
    /\ is_authenticated
    /\ resp = Redirect("cart_checkout", "cart_confirm")
    /\ RowsOfUser(carts, current_user_id) # {}
    /\ \E i \in 1..Len(orders) : orders[i].user_id = current_user_id

\* C9: remove_from_cart deletes the row with that id when it belongs to the
\* requesting user and otherwise signals NotFound; all other rows stay.
C9_RemoveDeletesOwnRow ==
    [][\A i \in CartIds :
          (is_authenticated /\ cart_remove(i)) =>
              LET own == { r \in carts : r.id = i /\ r.user_id = current_user_id }
              IN  /\ carts' = carts \ own
                  /\ own = {} => resp'.to = "404"]_vars

\* C10: no two Orders share the same order_number.
C10_OrderNumbersUnique ==
    \A i \in 1..Len(orders), j \in 1..Len(orders) :
        orders[i].order_number = orders[j].order_number => i = j

\* a commit that drew an order number already in use and failed
C10_Witness ==
    /\ is_authenticated
    /\ resp = InternalError("cart_checkout")
    /\ orders # << >>
    /\ CartOf(current_user_id) # << >>
    /\ CartTotal(CartOf(current_user_id)).ok

\* the OrderItem rows of Order i
ItemsOfOrder(i) == { k \in 1..Len(order_items) : order_items[k].order_id = i }

\* C11: the order+items creation of a commit is one atomic unit: in every
\* state another request can observe, and in the state a failure during the
\* commit leaves, no Order without its OrderItems stands beside the undrained
\* cart of its user.
C11_CommitAtomic ==
    \A i \in 1..Len(orders) :
        ~(ItemsOfOrder(i) = {} /\ RowsOfUser(carts, orders[i].user_id) # {})

\* the ids of the Cart rows a request read
RowIds(cart_items) == { cart_items[i].id : i \in 1..Len(cart_items) }

\* the order and order-item tables have room for one more commit of uid
RoomForCommit(uid) ==
    /\ Len(orders) + PendingOrders < MaxOrders
    /\ Len(order_items) + PendingItems(Threads) + Len(CartOf(uid)) <= MaxOrderItems

\* C12: commit requests of one user are not mutually excluded: while one is
\* being handled, a second one that comes with the selected payment method
\* is let in, reads the same non-empty cart and goes on to create its Order.
C12_CommitsNotExcluded ==
    \A t \in Threads, u \in Threads :
        ( /\ inflight[t].pc # "idle"
          /\ inflight[u].pc = "idle"
          /\ is_authenticated
          /\ current_user_id = inflight[t].uid
          /\ session.payment_method # None
          /\ RowIds(CartOf(current_user_id)) = RowIds(inflight[t].cart_items)
          /\ RoomForCommit(current_user_id) )
        => ENABLED ( /\ checkout_begin(u)
                     /\ inflight'[u].pc = "order"
                     /\ RowIds(inflight'[u].cart_items) = RowIds(inflight[t].cart_items) )

\* two Orders in the table, each created by a request that read the same
\* Cart rows of the same user
C12_Witness ==
    \E t \in Threads, u \in Threads :
        /\ t # u
        /\ inflight[t].pc \in {"items", "flush", "paid"}
        /\ inflight[u].pc \in {"items", "flush", "paid"}
        /\ inflight[t].uid = inflight[u].uid
        /\ RowIds(inflight[t].cart_items) = RowIds(inflight[u].cart_items)
        /\ inflight[t].order_id # inflight[u].order_id
        /\ {inflight[t].order_id, inflight[u].order_id} \subseteq 1..Len(orders)

\* the sum of product price x quantity over a set of Cart rows
RECURSIVE PriceTimesQuantity(_)
PriceTimesQuantity(rows) ==
    IF rows = {} THEN 0
    ELSE LET r == CHOOSE x \in rows : TRUE
         IN  products[r.product_id].price * r.quantity
             + PriceTimesQuantity(rows \ {r})

\* C13: the total_amount of the Order a commit creates is the sum of product
\* price x quantity over the Cart rows the commit read, and those are the
\* rows of the user as they are in the table when the commit reads them,
\* whatever total the accepted Confirm computed.
C13_TotalFromCurrentCart ==
    [][\A t \in Threads :
          /\ (inflight[t].pc = "idle" /\ inflight'[t].pc = "order")
                => { inflight'[t].cart_items[i] : i \in 1..Len(inflight'[t].cart_items) }
                     = RowsOfUser(carts, current_user_id)
          /\ (inflight[t].pc = "order" /\ inflight'[t].pc = "items")
                => /\ Len(orders') = Len(orders) + 1
                   /\ orders'[Len(orders')].total_amount
                        = PriceTimesQuantity({ inflight[t].cart_items[i] :
                                                 i \in 1..Len(inflight[t].cart_items) })]_vars

\* an Order just created whose total is that of the cart the commit read and
\* not the total the accepted Confirm computed: the cart changed in between
C13_Witness ==
    \E t \in Threads :
        /\ inflight[t].pc = "items"
        /\ inflight[t].confirmed # None
        /\ orders[inflight[t].order_id].total_amount # inflight[t].confirmed[1]
        /\ orders[inflight[t].order_id].total_amount
             = PriceTimesQuantity(RowsOfUser(carts, inflight[t].uid))

====
